---- MODULE Spec2Model ----
(***************************************************************************)
(* Laghost: the adaptive step driver (main), the RK2Avg integrator and the *)
(* cache discipline of LagrangianHydroOperator.                            *)
(*                                                                         *)
(* Times and step sizes are exact integers counted in ticks; one tick is   *)
(* 1e-42 time units, so the driver's floor 1.0E-38 is DtFloor ticks.       *)
(* Field contents (S, p_gf, ini_p_gf) are content identifiers: two vectors *)
(* have the same identifier exactly when they hold the same values.        *)
(***************************************************************************)
EXTENDS Integers, Sequences, FiniteSets, TLC

\* ---------------------------------------------------------------- numbers
\* std::numeric_limits<double>::infinity(), above every finite value used
Infinity == 100000000
\* the absolute floor 1.0E-38 of the driver, in ticks
DtFloor == 10000
\* t_final = 1.0e38 that main substitutes when max_tsteps > -1
TFinalCap == 10000000
\* ti at which main latches itime = dt
ItimeStep == 50000
\* number of trial steps explored in one run
MaxTrials == 5
\* refresh requests counted between two invalidations
MaxAsks == 3

Min(a, b) == IF a < b THEN a ELSE b

\* dt *= 0.50, exact on the tick grid
Halve(d) == d \div 2
\* dt *= 1.02, exact on the tick grid
Grow(d) == (d \div 50) * 51
\* the values the model can halve / grow without rounding
CanHalve(d) == d % 2 = 0
CanGrow(d) == d % 50 = 0

\* ----------------------------------------------------------- configuration
\* run parameters (param.sim.*, param.mat.plastic, param.tmop.*, param.control.*)
Params ==
  { [t_final |-> 60000, max_tsteps |-> -1, plastic |-> TRUE,  tmop |-> FALSE,
     remesh_steps |-> 2, winkler |-> FALSE, visit |-> TRUE,  paraview |-> TRUE,
     vis_steps |-> 2],
    [t_final |-> 60000, max_tsteps |-> -1, plastic |-> FALSE, tmop |-> TRUE,
     remesh_steps |-> 2, winkler |-> TRUE,  visit |-> FALSE, paraview |-> TRUE,
     vis_steps |-> 2],
    [t_final |-> 60000, max_tsteps |-> 2,  plastic |-> TRUE,  tmop |-> FALSE,
     remesh_steps |-> 2, winkler |-> FALSE, visit |-> TRUE,  paraview |-> FALSE,
     vis_steps |-> 2] }

\* main, after option parsing: a step-limited run gets t_final = 1.0e38
ParseOptions(p) ==
  IF p.max_tsteps > -1 THEN [p EXCEPT !.t_final = TFinalCap] ELSE p

\* -------------------------------------------------------------------- setup
\* largest list length and number of material ids explored
MaxLen == 3
\* largest boundary-condition code explored
MaxBcCode == 8

\* the per-material parameter lists, in the order main validates them
Lists ==
  <<"rho", "lambda", "mu", "tension_cutoff", "cohesion0", "cohesion1",
    "friction_angle", "dilation_angle", "pls0", "pls1", "plastic_viscosity">>

ListNames == {Lists[i] : i \in DOMAIN Lists}

\* a consistent input: nbdr and nmat are bdr_attributes.Max() and
\* attributes.Max() of the mesh, len the sizes of the *_vec lists
DefaultConfig ==
  [dim |-> 2, nbdr |-> 2, bc_id |-> <<1, 0>>, ode_solver_type |-> 7,
   nmat |-> 2, len |-> [l \in ListNames |-> 2], viscoplastic |-> FALSE,
   p_assembly |-> FALSE, Q1D |-> 4]

BcCodes == -1..MaxBcCode

\* inputs that differ from the consistent one in the boundary codes, in the
\* ODE scheme, in one list length, or in the kernel the dispatch asks for
Configs ==
  {[DefaultConfig EXCEPT !.dim = d, !.bc_id = <<a, b>>] :
     d \in {2, 3}, a \in BcCodes, b \in BcCodes}
  \cup {[DefaultConfig EXCEPT !.nbdr = n] : n \in 1..3}
  \cup {[DefaultConfig EXCEPT !.ode_solver_type = o] : o \in 0..8}
  \cup {[DefaultConfig EXCEPT !.nmat = n, !.viscoplastic = v,
                              !.len = [l \in ListNames |->
                                         IF l = bad THEN k ELSE n]] :
          n \in 1..MaxLen, v \in BOOLEAN, bad \in ListNames, k \in 0..MaxLen}
  \cup {[DefaultConfig EXCEPT !.dim = d, !.p_assembly = pa, !.Q1D = q] :
          d \in {2, 3}, pa \in BOOLEAN, q \in 3..8}

\* the codes whose case ends in break: 1..3 in 2D; in 3D 1..6, because case 7
\* constrains its components and then runs into default
BcSupported(d) == IF d = 2 THEN 1..3 ELSE 1..6

\* if (bc_id[i] > 0) switch (bc_id[i]) ... default: return 3
BcRejected(c) ==
  \E i \in DOMAIN c.bc_id :
    c.bc_id[i] > 0 /\ c.bc_id[i] \notin BcSupported(c.dim)

OdeSupported_any(o) == TRUE

\* the cases of switch (param.solver.ode_solver_type)
OdeSupported(o) == o \in {1, 2, 3, 4, 6, 7}

ListAccepted_any(n, nmat) == TRUE

\* size() == 1 fills every material, otherwise size() must be attributes.Max()
ListAccepted(n, nmat) == n = 1 \/ n = nmat

\* plastic_viscosity is looked at only if param.mat.viscoplastic
ListChecked(c, l) == l /= "plastic_viscosity" \/ c.viscoplastic

\* the lists main rejects, by position in its order of validation
BadLists(c) ==
  {i \in DOMAIN Lists :
     ListChecked(c, Lists[i]) /\ ~ListAccepted(c.len[Lists[i]], c.nmat)}

FirstOf(is) == CHOOSE i \in is : \A j \in is : i <= j

\* the vector components a case of the boundary switch hands to
\* GetEssentialTrueDofs / GetEssentialVDofs (no component argument: all of
\* them); 3D case 6 passes 1 and 2, 3D case 7 passes 2 and 3
BcComponents(d, code) ==
  IF d = 2
  THEN (CASE code = 1 -> {0} [] code = 2 -> {1} [] code = 3 -> {0, 1}
          [] OTHER -> {})
  ELSE (CASE code = 1 -> {0} [] code = 2 -> {1} [] code = 3 -> {2}
          [] code = 4 -> {0, 1, 2} [] code = 5 -> {0, 1}
          [] code = 6 -> {1, 2} [] code = 7 -> {2, 3}
          [] OTHER -> {})

\* the boundary loop: boundaries are visited in order and the first rejected
\* code returns from main, so later boundaries are never visited
Marked(c) ==
  LET bad == {i \in DOMAIN c.bc_id :
                c.bc_id[i] > 0 /\ c.bc_id[i] \notin BcSupported(c.dim)}
  IN [i \in DOMAIN c.bc_id |->
        IF (bad /= {} /\ i > FirstOf(bad)) \/ c.bc_id[i] <= 0 THEN {}
        ELSE BcComponents(c.dim, c.bc_id[i])]

\* const int id = (dim << 4) | Q1D, looked up in the table of QKernels
KernelId(c) == c.dim * 16 + c.Q1D

KernelKnown(id) == id \in {36, 38, 40, 52, 54, 56}

\* if (dim > 1 && p_assembly) the refresh dispatches on the kernel id and
\* MFEM_ABORTs on an id that is not in the table
KernelAborts(c) == c.dim > 1 /\ c.p_assembly /\ ~KernelKnown(KernelId(c))

\* ------------------------------------------------------------------ kernel
\* local stable-dt bounds cfl/inv_dt a batch can produce; Infinity stands for
\* a batch in which no quadrature point has inv_dt > 0
LocalEst == {20000, 25000, 40000, Infinity}
\* what one batch of zones shows the kernel: the sign of min_detJ, its bound
BatchOut == [neg : BOOLEAN, bound : LocalEst]
\* the batches of one refresh
Batches == [1..2 -> BatchOut]
\* the local estimates of the other ranks at a reduction
RemoteEst == {0, 20000, Infinity}

\* one batch of the full-assembly kernel: an inverted batch forces dt_est to
\* zero, otherwise dt_est = fmin(dt_est, cfl/inv_dt) where inv_dt > 0
BatchEst(prev, b) ==
  IF b.neg THEN 0
  ELSE IF b.bound < Infinity THEN Min(prev, b.bound) ELSE prev

RECURSIVE KernelEst(_, _)
KernelEst(prev, bs) ==
  IF bs = <<>> THEN prev
  ELSE KernelEst(BatchEst(prev, Head(bs)), Tail(bs))

SawNegative(bs) == \E i \in DOMAIN bs : bs[i].neg

\* the partial-assembly kernel: q_dt_est = qdata.dt_est fills every entry
\* with the running value, each point sets its entry to zero when its
\* determinant is negative and to fmin(entry, cfl/idt) when idt > 0, and
\* qdata.dt_est = q_dt_est.Min()
PointEst_overwrites(prev, b) ==
  IF b.neg THEN 0
  ELSE IF b.bound < Infinity THEN b.bound ELSE prev

PointEst(prev, b) ==
  IF b.neg THEN 0
  ELSE IF b.bound < Infinity THEN Min(prev, b.bound) ELSE prev

RECURSIVE VectorMin(_, _)
VectorMin(least, es) ==
  IF es = <<>> THEN least ELSE VectorMin(Min(least, Head(es)), Tail(es))

QKernelEst(prev, ps) ==
  VectorMin(Infinity, [i \in DOMAIN ps |-> PointEst(prev, ps[i])])

\* ------------------------------------------------- the zones of one kernel
\* largest number of zones of a rank's mesh
MaxNE == 4
\* int nzones_batch = 3
ZonesBatch == 3

NBatches_no_remainder(NE) == NE \div ZonesBatch

\* const int nbatches = NE / nzones_batch + 1
NBatches(NE) == NE \div ZonesBatch + 1

\* for (b = 0; b < nbatches; b++): z_id = b * nzones_batch; break when
\* z_id == NE; a batch that would pass NE is cut to NE - z_id zones (and
\* nzones_batch keeps the cut value); the second inner loop visits
\* z_id .. z_id + nzones_batch - 1.  The result lists the batches, each the
\* sequence of zone indices it visits.
RECURSIVE BatchLoop(_, _, _, _)
BatchLoop(NE, b, nzones_batch, done) ==
  IF b >= NBatches(NE) THEN done
  ELSE LET z_id == b * nzones_batch IN
         IF z_id = NE THEN done
         ELSE LET n == IF z_id + nzones_batch > NE THEN NE - z_id
                       ELSE nzones_batch
              IN BatchLoop(NE, b + 1, n,
                           Append(done, [z \in 1..n |-> z_id + z - 1]))

RECURSIVE Flatten(_)
Flatten(ss) == IF ss = <<>> THEN <<>> ELSE Head(ss) \o Flatten(Tail(ss))

\* MFEM_FORALL(e, NE, ...): every zone 0 .. NE-1
ForallZones(NE) == [z \in 1..NE |-> z - 1]

\* ---------------------------------------------- the stress rate at a point
\* lambda_gf(z_id) and mu_gf(z_id) of the zone's material
Lame1 == 3
Lame2 == 1

Mat(d) == (1..d) \X (1..d)

\* the velocity gradient and the stress read at one quadrature point: g12 and
\* g21 are the off-diagonal entries of grad v and sxy is the shear stress
Points == [g12 : {0, 2}, g21 : {0}, sxy : {1}]

\* v.GetVectorGradient(*T, sgrad_v)
GradV(p, d) ==
  [ij \in Mat(d) |->
     IF ij = <<1, 1>> THEN 1
     ELSE IF ij = <<1, 2>> THEN p.g12
     ELSE IF ij = <<2, 1>> THEN p.g21 ELSE 0]

\* old_sig from sxx, sxy, syy (and sxz, syz, szz)
OldSig(p, d) ==
  [ij \in Mat(d) |->
     IF ij = <<1, 1>> THEN 1
     ELSE IF ij \in {<<1, 2>>, <<2, 1>>} THEN p.sxy ELSE 0]

Symmetrize(A, d) == [ij \in Mat(d) |-> (A[ij] + A[<<ij[2], ij[1]>>]) \div 2]
MatSub(A, B, d) == [ij \in Mat(d) |-> A[ij] - B[ij]]
MatAdd(A, B, d) == [ij \in Mat(d) |-> A[ij] + B[ij]]
Scaled(c, A, d) == [ij \in Mat(d) |-> c * A[ij]]
Identity(d) == [ij \in Mat(d) |-> IF ij[1] = ij[2] THEN 1 ELSE 0]
Zero(d) == [ij \in Mat(d) |-> 0]
Trace(A, d) == A[<<1, 1>>] + A[<<2, 2>>] + (IF d = 3 THEN A[<<3, 3>>] ELSE 0)
MatMult(A, B, d) ==
  [ij \in Mat(d) |->
     A[<<ij[1], 1>>] * B[<<1, ij[2]>>] + A[<<ij[1], 2>>] * B[<<2, ij[2]>>]
       + (IF d = 3 THEN A[<<ij[1], 3>>] * B[<<3, ij[2]>>] ELSE 0)]

\* srate = sym(grad v), spin = grad v - srate
SRate(p, d) == Symmetrize(GradV(p, d), d)
Spin(p, d) == MatSub(GradV(p, d), SRate(p, d), d)

\* tau0 = 2 lame2 srate + (2 lame1 tr(srate) / dim) I, without the
\* corotational terms
TauPlain(p, d) ==
  MatAdd(Scaled(2 * Lame2, SRate(p, d), d),
         Scaled((2 * Lame1 * Trace(SRate(p, d), d)) \div d, Identity(d), d), d)

\* the full-assembly kernel: crot1 = old_sig spin, crot2 = spin old_sig,
\* tau0 += crot1 - crot2, and qdata.tauJinvT = tau0 (times the positive
\* factor rho * weight * detJ, taken as 1); tau0 stays 0 without viscosity
TauFA(p, d, visc) ==
  IF visc
  THEN MatAdd(TauPlain(p, d),
              MatSub(MatMult(OldSig(p, d), Spin(p, d), d),
                     MatMult(Spin(p, d), OldSig(p, d), d), d), d)
  ELSE Zero(d)

\* the partial-assembly kernel: d_tauJinvT[offset] = 0.0
TauPA(p, d, visc) == Zero(d)

\* ---------------------------------------------------- the stress-rate write
\* dofs of one stress component in one zone
ZoneDofs == 2

\* main: offset[4] = offset[3] + Vsize_l2 * 3 * (dim - 1), and dsig refers to
\* the L2 stress space of 3 * (dim - 1) components
StressBlockSize(d, NE) == 3 * (d - 1) * NE * ZoneDofs

\* SolveStress: for every zone e one sub-vector per k, with
\* dof_loc[i] = i + (e + k * NE) * dof_loc.Size(); k runs over 4 sub-vectors
\* in 2D and over 9 in 3D
StressSubVectors(d) == d * d

StressWrites(d, NE) ==
  [size |-> StressBlockSize(d, NE),
   blocks |-> {k \in 0..(StressSubVectors(d) - 1) : NE > 0},
   idx |-> {i + (e + k * NE) * ZoneDofs :
              i \in 0..(ZoneDofs - 1), e \in 0..(NE - 1),
              k \in 0..(StressSubVectors(d) - 1)}]

\* what a refresh reads of the geometry, summarised in two groups of
\* quadrature points (none on a rank without zones)
Geometry(NE) == IF NE = 0 THEN {<<>>} ELSE Batches

\* a kernel on its own: the mesh (dim, NE), the point its tensors are taken
\* at, use_viscosity, the freshness flag, the running estimate and its value
\* before the last refresh or reset, the kernels that have run, the zones
\* each kernel visited, the flux each kernel wrote and the indices
\* SolveStress wrote
KernelIdle ==
  [dim |-> 2, NE |-> 0, p |-> [g12 |-> 0, g21 |-> 0, sxy |-> 0],
   visc |-> TRUE, cur |-> FALSE, dt_est |-> Infinity, was |-> Infinity,
   zones |-> [FA |-> <<>>, PA |-> <<>>], ran |-> {},
   tau |-> [FA |-> Zero(2), PA |-> Zero(2)],
   dsig |-> [size |-> 0, blocks |-> {}, idx |-> {}]]

\* the meshes and points a kernel is run on
KernelInputs ==
  {[KernelIdle EXCEPT !.dim = d, !.NE = n, !.p = q, !.visc = v,
                      !.tau = [FA |-> Zero(d), PA |-> Zero(d)]] :
     d \in {2, 3}, n \in 0..MaxNE, q \in Points, v \in BOOLEAN}

\* ---------------------------------------------------------------- operator
\* LagrangianHydroOperator (geo): the freshness flag, the running minimum,
\* the state the mesh nodes are bound to, the state and the nodes the cache
\* was computed from, and the cache source the last assembler consumed.
\* runs counts kernel bodies and asks counts refresh requests (up to MaxAsks)
\* since the last invalidation, neg records whether
\* a refresh since the last ResetTimeStepEstimate saw a negative determinant;
\* -1 stands for no state yet.  did lists the steps taken and own is the
\* minimum over the kernel refreshes run since the caller last began a public
\* operation or a trial step.  hits holds, for every refresh request since
\* then that found the cache current, the state it was given, the state the
\* cache was computed from and the number of steps taken before it.
GeoInit ==
  [qdata_is_current |-> FALSE, dt_est |-> Infinity, nodes |-> -1,
   qsrc |-> -1, qnodes |-> -1, used |-> -1,
   runs |-> 0, asks |-> 0, neg |-> FALSE, did |-> <<>>, own |-> Infinity,
   hits |-> {}]

\* a caller begins a public operation or a trial step
Begin(g) == [g EXCEPT !.did = <<>>, !.own = Infinity, !.hits = {}]

\* one more step taken
Did(g, what) == [g EXCEPT !.did = Append(@, what)]

UpdateMesh_unbound(g, s) == Did(g, "UpdateMesh")

\* x_gf.MakeRef(&H1, S, 0): the mesh nodes alias the position block of S
UpdateMesh(g, s) == [Did(g, "UpdateMesh") EXCEPT !.nodes = s]

\* a refresh request: the kernel body runs only when the cache is stale
Asked(g) == [g EXCEPT !.asks = Min(@ + 1, MaxAsks)]

UpdateQuadratureData_unguarded(g, s, bs) ==
  [Asked(g) EXCEPT !.qdata_is_current = TRUE,
                   !.dt_est = KernelEst(@, bs),
                   !.qsrc = s,
                   !.qnodes = g.nodes,
                   !.runs = @ + 1,
                   !.neg = @ \/ SawNegative(bs),
                   !.own = KernelEst(@, bs)]

UpdateQuadratureData(g, s, bs) ==
  IF g.qdata_is_current
  THEN [Asked(g) EXCEPT
          !.hits = @ \cup {[given |-> s, from |-> g.qsrc, by |-> Len(g.did)]}]
  ELSE [Asked(g) EXCEPT !.qdata_is_current = TRUE,
                        !.dt_est = KernelEst(@, bs),
                        !.qsrc = s,
                        !.qnodes = g.nodes,
                        !.runs = @ + 1,
                        !.neg = @ \/ SawNegative(bs),
                        !.own = KernelEst(@, bs)]

\* each assembler refreshes the cache if stale and then consumes it
Consume(g) == [g EXCEPT !.used = g.qsrc]
SolveVelocity(g, s, bs) ==
  Did(Consume(UpdateQuadratureData(g, s, bs)), "SolveVelocity")
SolveEnergy(g, s, bs) ==
  Did(Consume(UpdateQuadratureData(g, s, bs)), "SolveEnergy")
SolveStress(g, s, bs) ==
  Did(Consume(UpdateQuadratureData(g, s, bs)), "SolveStress")

ResetQuadratureData(g) ==
  [Did(g, "ResetQuadratureData")
     EXCEPT !.qdata_is_current = FALSE, !.runs = 0, !.asks = 0]

ResetTimeStepEstimate_keeps(g) == [g EXCEPT !.neg = FALSE]

\* qdata.dt_est = std::numeric_limits<double>::infinity()
ResetTimeStepEstimate(g) == [g EXCEPT !.dt_est = Infinity, !.neg = FALSE]

EstimateRefresh_without_mesh(g, s, bs) == UpdateQuadratureData(g, s, bs)

\* GetTimeStepEstimate: bind the mesh, refresh if stale; the value returned
\* is the MPI_MIN reduction of the local estimates
EstimateRefresh(g, s, bs) == UpdateQuadratureData(UpdateMesh(g, s), s, bs)
GlobalEstimate(g, remote) == Min(g.dt_est, remote)

\* Mult: UpdateMesh, dx_dt = v, SolveVelocity, SolveEnergy, then mark stale
Mult_keeps_flag(g, s, bs) ==
  SolveEnergy(SolveVelocity(Did(UpdateMesh(g, s), "dx = v"), s, bs), s, bs)

Mult(g, s, bs) ==
  [SolveEnergy(SolveVelocity(Did(UpdateMesh(g, s), "dx = v"), s, bs), s, bs)
     EXCEPT !.qdata_is_current = FALSE, !.runs = 0, !.asks = 0,
            !.did = Append(@, "qdata_is_current = false")]

RK2AvgStage_keeps_cache(g, s, bs) ==
  Did(SolveStress(SolveEnergy(SolveVelocity(UpdateMesh(g, s), s, bs), s, bs),
                  s, bs), "ResetQuadratureData")

\* one stage of RK2AvgSolver::Step as the operator sees it: UpdateMesh,
\* SolveVelocity, SolveEnergy, SolveStress on the stage's state, and the
\* ResetQuadratureData that follows the stage's add()
RK2AvgStage(g, s, bs) ==
  ResetQuadratureData(
    SolveStress(SolveEnergy(SolveVelocity(UpdateMesh(g, s), s, bs), s, bs),
                s, bs))

\* -------------------------------------------------------------------- state
VARIABLES
  param,          \* the parsed run parameters
  pc,             \* position of main
  ti, t, dt, t_old, dt_old, last_step, steps, itime, mesh_changed,
  S, S_old,       \* state vector and its snapshot
  p_gf, p_gf_old, ini_p_gf, ini_p_old_gf,
  est,            \* main's dt_est of the current trial
  geo,            \* the operator
  S0,             \* RK2AvgSolver::S0
  saved,          \* data-collection saves, in order
  nextId,         \* next unused content identifier
  outcome,        \* what the driver did with the last finished trial
  used_dt,        \* the dt the last finished trial used
  used_ti,        \* the step index of the last finished trial
  rm_dt,          \* time increment last passed to Returnmapping
  snap,           \* what S, t, p_gf, ini_p_gf held when the trial began
  op,             \* last public operation called on the operator alone
  calls,          \* collaborator calls the driver made in the current trial
  adds,           \* the add() updates of S made by the current Step
  cfg,            \* enumerated options and list lengths as read from input
  diag,           \* diagnostic message printed by a failed setup check
  dim,            \* main's static int dim
  ess,            \* per boundary, the components whose dofs were marked
  kern,           \* a kernel run on its own: its mesh, its point, its output
  ranks,          \* the driver loop of every MPI rank
  coll            \* the contributions to the MPI_Allreduce in flight

drv == <<pc, ti, t, dt, t_old, dt_old, last_step, steps, itime, mesh_changed,
         S, S_old, p_gf, p_gf_old, ini_p_gf, ini_p_old_gf, est, S0, saved,
         nextId, outcome, used_dt, used_ti, rm_dt, snap, calls, adds>>

\* the kernel on its own and the ranks take no part in main's behaviours
others == <<kern, ranks, coll>>

vars == <<param, drv, geo, op, cfg, diag, dim, ess, others>>

\* the MPI ranks of the run
Rank == {1, 2}

\* a rank at ode_solver->Init(geo): pc is its position, loc its local
\* qdata.dt_est, est what the last reduction gave it, inverted whether its
\* last refreshes saw a negative determinant, joined the number of
\* collectives it has entered
RankStart ==
  [pc |-> "init", ti |-> 1, t |-> 0, dt |-> 0, t_old |-> 0,
   last_step |-> FALSE, steps |-> 0, itime |-> 0, mesh_changed |-> FALSE,
   loc |-> Infinity, est |-> Infinity, inverted |-> FALSE,
   outcome |-> "none", used_dt |-> 0, joined |-> 0]

\* no rank has entered the collective (-1: no contribution)
NoColl == [r \in Rank |-> -1]

\* a call of a public operation: its name, its state argument, the
\* freshness flag it found on entry and the value it returned (-1: none)
Call(name, s) ==
  [name |-> name, arg |-> s, cur |-> geo.qdata_is_current, ret |-> -1]

\* main's locals and the operator as they are constructed
Constructed ==
  /\ param \in {ParseOptions(p) : p \in Params}
  /\ ti = 1 /\ t = 0 /\ dt = 0 /\ t_old = 0 /\ dt_old = 0
  /\ last_step = FALSE /\ steps = 0 /\ itime = 0 /\ mesh_changed = FALSE
  /\ S = 0 /\ S_old = 0 /\ S0 = 0
  /\ p_gf = 0 /\ p_gf_old = 0 /\ ini_p_gf = 0 /\ ini_p_old_gf = 0
  /\ est = Infinity
  /\ geo = GeoInit
  /\ saved = <<>>
  /\ nextId = 1
  /\ outcome = "none" /\ used_dt = 0 /\ used_ti = 0 /\ rm_dt = -1
  /\ snap = [S |-> 0, t |-> 0, p_gf |-> 0, ini_p_gf |-> 0]
  /\ op = [name |-> "none", arg |-> -1, cur |-> FALSE, ret |-> -1]
  /\ calls = <<>>
  /\ adds = <<>>
  /\ diag = ""
  /\ ranks = [r \in Rank |-> RankStart]
  /\ coll = NoColl

\* the state when main reaches ode_solver->Init(geo) with a consistent input
Init ==
  /\ Constructed
  /\ pc = "init"
  /\ cfg = DefaultConfig
  /\ dim = 2
  /\ ess = Marked(DefaultConfig)
  /\ kern = KernelIdle

\* the state when main has read its input and the mesh
InitSetup ==
  /\ Constructed
  /\ pc = "bc"
  /\ cfg \in Configs
  /\ dim = cfg.dim
  /\ ess = [i \in DOMAIN cfg.bc_id |-> {}]
  /\ kern = KernelIdle

\* -------------------------------------------------------------------- setup
\* what the setup checks leave alone
built == <<others, param, cfg, geo, op, ti, t, dt, t_old, dt_old, last_step, steps,
           itime, mesh_changed, S, S_old, p_gf, p_gf_old, ini_p_gf,
           ini_p_old_gf, est, S0, saved, nextId, outcome, used_dt, used_ti,
           rm_dt, snap, calls, adds>>

\* cout << message; delete pmesh; MPI_Finalize(); return 3
Exit3(msg) == pc' = "exit3" /\ diag' = msg

\* the number of boundary codes against the mesh, then every code
CheckBoundaries ==
  /\ pc = "bc"
  /\ IF cfg.nbdr /= Len(cfg.bc_id)
     THEN Exit3("The number of boundaries are not consistent")
     ELSE IF BcRejected(cfg)
     THEN Exit3("Unknown boundary type")
     ELSE pc' = "ode" /\ diag' = diag
  /\ ess' = IF cfg.nbdr /= Len(cfg.bc_id) THEN ess ELSE Marked(cfg)
  /\ UNCHANGED <<built, dim>>

\* switch (param.solver.ode_solver_type)
CheckOde ==
  /\ pc = "ode"
  /\ IF OdeSupported(cfg.ode_solver_type)
     THEN pc' = "lists" /\ diag' = diag
     ELSE Exit3("Unknown ODE solver type")
  /\ UNCHANGED <<built, dim, ess>>

\* the per-material lists one after the other; the first one rejected ends
\* the run
CheckLists ==
  /\ pc = "lists"
  /\ IF BadLists(cfg) = {}
     THEN pc' = "weak" /\ diag' = diag
     ELSE Exit3(Lists[FirstOf(BadLists(cfg))])
  /\ UNCHANGED <<built, dim, ess>>

\* Vector weak_location(dim); if (dim = 2) {...} else if (dim = 3) {...}:
\* the condition is an assignment, so dim becomes 2 and the first branch runs
WeakLocation ==
  /\ pc = "weak"
  /\ dim' = 2
  /\ pc' = "init"
  /\ UNCHANGED <<built, ess, diag>>

\* the first kernel refresh (the initial estimate) finds no kernel
KernelAbort ==
  /\ pc = "init"
  /\ KernelAborts(cfg)
  /\ pc' = "aborted"
  /\ diag' = "Unknown kernel"
  /\ UNCHANGED <<built, dim, ess>>

\* ------------------------------------------------------------------- driver
\* geo.ResetTimeStepEstimate(); dt = geo.GetTimeStepEstimate(S, dt);
\* BlockVector S_old(S)
InitEstimate ==
  /\ pc = "init"
  /\ ~KernelAborts(cfg)
  /\ \E bs \in Batches, remote \in RemoteEst :
       LET g == EstimateRefresh(ResetTimeStepEstimate(Begin(geo)), S, bs) IN
         /\ geo' = g
         /\ dt' = GlobalEstimate(g, remote)
  /\ S_old' = S
  /\ pc' = "top"
  /\ UNCHANGED <<others, dim, ess, cfg, diag, param, ti, t, t_old, dt_old, last_step, steps, itime,
                 mesh_changed, S, p_gf, p_gf_old, ini_p_gf, ini_p_old_gf, est,
                 S0, saved, nextId, outcome, used_dt, used_ti, rm_dt, snap, op,
                 calls, adds>>

\* head of the loop body up to the call of ode_solver->Step
LoopTop ==
  /\ pc = "top"
  /\ ~last_step
  /\ steps < MaxTrials
  /\ LET clip == t + dt >= param.t_final
         dt1 == IF clip THEN param.t_final - t ELSE dt
     IN /\ dt' = dt1
        /\ last_step' = (clip \/ steps = param.max_tsteps)
        /\ itime' = IF ti = ItimeStep THEN dt1 ELSE itime
  /\ S_old' = S
  /\ t_old' = t
  /\ p_gf_old' = p_gf
  /\ ini_p_old_gf' = ini_p_gf
  /\ geo' = ResetTimeStepEstimate(Begin(geo))
  /\ snap' = [S |-> S, t |-> t, p_gf |-> p_gf, ini_p_gf |-> ini_p_gf]
  /\ calls' = <<>>
  /\ pc' = "stage1"
  /\ UNCHANGED <<others, dim, ess, cfg, diag, param, ti, t, dt_old, steps, mesh_changed, S,
                 p_gf, ini_p_gf, est, S0, saved, nextId, outcome, used_dt,
                 used_ti, rm_dt, op, adds>>

\* the for statement finds last_step set
LoopExit ==
  /\ pc = "top"
  /\ last_step
  /\ pc' = "done"
  /\ UNCHANGED <<others, dim, ess, cfg, diag, param, ti, t, dt, t_old, dt_old, last_step, steps, itime,
                 mesh_changed, S, S_old, p_gf, p_gf_old, ini_p_gf,
                 ini_p_old_gf, est, geo, S0, saved, nextId, outcome, used_dt,
                 used_ti, rm_dt, snap, op, calls, adds>>

\* S0 + c*dS_dt: a new content, unless the increment is zero
Advance(s, d, id) == IF d = 0 THEN s ELSE id

\* the batches a refresh of g reads: none when the cache is current
Reads(g) == IF g.qdata_is_current THEN {<<>>} ELSE Batches

\* dS_dt after a stage: dv_dt, de_dt and the stress rate come from the cache
\* of state g.used, and dx_dt = V = v0 + 0.5 * dt * dv_dt with v0 the velocity
\* block of S0
Rates_plain_velocity(g, s0) == [at |-> g.used, v0 |-> -1]

Rates(g, s0) == [at |-> g.used, v0 |-> s0]

\* add(S0, halves/2 * dt, dS_dt, S): base, factor, rates and result, and the
\* freshness flag the stage leaves behind
Add(base, halves, d, rate, out, g) ==
  [base |-> base, halves |-> halves, dt |-> d, rate |-> rate, out |-> out,
   cur |-> g.qdata_is_current]

\* RK2AvgSolver::Step, first stage: rates at S0, then S = S0 + dt/2 * dS_dt
\* and ResetQuadratureData
Stage1 ==
  /\ pc = "stage1"
  /\ S0' = S
  /\ \E bs \in Reads(geo) :
       LET g == RK2AvgStage(geo, S, bs) IN
         /\ geo' = g
         /\ adds' = <<Add(S, 1, dt, Rates(g, S), Advance(S, dt, nextId), g)>>
  /\ S' = Advance(S, dt, nextId)
  /\ nextId' = nextId + 1
  /\ pc' = "stage2"
  /\ UNCHANGED <<others, dim, ess, cfg, diag, param, ti, t, dt, t_old, dt_old, last_step, steps, itime,
                 mesh_changed, S_old, p_gf, p_gf_old, ini_p_gf, ini_p_old_gf,
                 est, saved, outcome, used_dt, used_ti, rm_dt, snap, op, calls>>

\* RK2AvgSolver::Step, second stage: rates at the half-step state, then
\* S = S0 + dt * dS_dt, ResetQuadratureData and t += dt
Stage2 ==
  /\ pc = "stage2"
  /\ \E bs \in Reads(geo) :
       LET g == RK2AvgStage(geo, S, bs) IN
         /\ geo' = g
         /\ adds' = Append(adds, Add(S0, 2, dt, Rates(g, S0),
                                      Advance(S0, dt, nextId), g))
  /\ S' = Advance(S0, dt, nextId)
  /\ nextId' = nextId + 1
  /\ t' = t + dt
  /\ pc' = "post"
  /\ UNCHANGED <<others, dim, ess, cfg, diag, param, ti, dt, t_old, dt_old, last_step, steps, itime,
                 mesh_changed, S_old, p_gf, p_gf_old, ini_p_gf, ini_p_old_gf,
                 est, S0, saved, outcome, used_dt, used_ti, rm_dt, snap, op,
                 calls>>

RemeshDue_always == TRUE

\* remeshing is due: (ti % remesh_steps) == 0 || (dt / itime) < time_reduction
\* (itime is 1.0e-100, written 0, until ti reaches ItimeStep, so only dt = 0
\* falls below it; afterwards time_reduction is taken as 0.25)
RemeshDue ==
  /\ param.tmop
  /\ \/ ti % param.remesh_steps = 0
     \/ IF itime = 0 THEN dt = 0 ELSE 4 * dt < itime

Save(kind, cycle, at) == [kind |-> kind, cycle |-> cycle, at |-> at]

\* the saves of the enabled data collections
Saves(cycle, at) ==
  (IF param.visit THEN <<Save("visit", cycle, at)>> ELSE <<>>)
  \o (IF param.paraview THEN <<Save("paraview", cycle, at)>> ELSE <<>>)

\* a collaborator call and the content of S it was given
Invoke(cs, name, s) == Append(cs, [name |-> name, on |-> s])

Returnmaps_never == FALSE

\* if (param.mat.plastic) Returnmapping(...)
Returnmaps == param.plastic

\* after Step: Returnmapping (plasticity), Winkler flattening, remeshing;
\* Returnmapping is given what Step returned, remeshing what Returnmapping
\* left
PostStep ==
  /\ pc = "post"
  /\ LET plast == Returnmaps
         moved == param.winkler \/ RemeshDue
         s1 == IF plast THEN nextId ELSE S
         c1 == IF plast THEN Invoke(calls, "Returnmapping", S) ELSE calls
     IN /\ rm_dt' = IF plast THEN dt_old ELSE rm_dt
        /\ p_gf' = IF plast THEN nextId ELSE IF RemeshDue THEN nextId + 1 ELSE p_gf
        /\ ini_p_gf' = IF RemeshDue THEN nextId + 1 ELSE ini_p_gf
        /\ S' = IF moved THEN nextId + 1 ELSE s1
        /\ nextId' = nextId + 2
        /\ calls' = IF RemeshDue THEN Invoke(c1, "Remesh", s1) ELSE c1
  /\ mesh_changed' = (mesh_changed \/ RemeshDue)
  /\ saved' = IF RemeshDue THEN saved \o Saves(ti - 1, "remesh") ELSE saved
  /\ pc' = "query"
  /\ UNCHANGED <<others, dim, ess, cfg, diag, param, ti, t, dt, t_old, dt_old, last_step, steps, itime,
                 S_old, p_gf_old, ini_p_old_gf, est, geo, S0, outcome,
                 used_dt, used_ti, snap, op, adds>>

\* steps++; dt_old = dt; dt_est = geo.GetTimeStepEstimate(S, dt)
Query ==
  /\ pc = "query"
  /\ steps' = steps + 1
  /\ dt_old' = dt
  /\ \E bs \in Reads(geo), remote \in RemoteEst :
       LET g == EstimateRefresh(geo, S, bs) IN
         /\ geo' = g
         /\ est' = GlobalEstimate(g, remote)
  /\ pc' = "control"
  /\ UNCHANGED <<others, dim, ess, cfg, diag, param, ti, t, dt, t_old, last_step, itime, mesh_changed, S,
                 S_old, p_gf, p_gf_old, ini_p_gf, ini_p_old_gf, S0, saved,
                 nextId, outcome, used_dt, used_ti, rm_dt, snap, op, calls,
                 adds>>

\* the driver's tests
Rejects_half(e, d) == 2 * e < d
\* if (dt_est < dt)
Rejects(e, d) == e < d
Grows_at_bound(e, d) == 4 * e >= 5 * d
\* else if (dt_est > 1.25 * dt)
Grows(e, d) == 4 * e > 5 * d
BelowFloor_before_halving(d) == d < DtFloor
\* dt *= 0.50; if (dt < 1.0E-38)
BelowFloor(d) == d < 2 * DtFloor

\* tail of an accepted iteration: periodic / final saves, then ti++
LoopTail ==
  /\ saved' = IF last_step \/ ti % param.vis_steps = 0
              THEN saved \o Saves(ti, "vis") ELSE saved
  /\ ti' = ti + 1
  /\ used_dt' = dt
  /\ used_ti' = ti
  /\ pc' = "top"

\* if (mesh_changed) { mesh_changed = false; }: no test after a remesh
AcceptRemeshed ==
  /\ pc = "control"
  /\ mesh_changed
  /\ mesh_changed' = FALSE
  /\ outcome' = "remeshed"
  /\ LoopTail
  /\ UNCHANGED <<others, dim, ess, cfg, diag, param, t, dt, t_old, dt_old, last_step, steps, itime, S,
                 S_old, p_gf, p_gf_old, ini_p_gf, ini_p_old_gf, est, geo, S0,
                 nextId, rm_dt, snap, op, calls, adds>>

\* dt_est >= dt: the step stands; else if (dt_est > 1.25 * dt) dt *= 1.02
Accept ==
  /\ pc = "control"
  /\ ~mesh_changed
  /\ ~Rejects(est, dt)
  /\ Grows(est, dt) => CanGrow(dt)
  /\ dt' = IF Grows(est, dt) THEN Grow(dt) ELSE dt
  /\ outcome' = IF Grows(est, dt) THEN "grown" ELSE "accepted"
  /\ LoopTail
  /\ UNCHANGED <<others, dim, ess, cfg, diag, param, t, t_old, dt_old, last_step, steps, itime,
                 mesh_changed, S, S_old, p_gf, p_gf_old, ini_p_gf,
                 ini_p_old_gf, est, geo, S0, nextId, rm_dt, snap, op, calls,
                 adds>>

Restore_without_plastic_strain ==
  /\ t' = t_old
  /\ S' = S_old
  /\ p_gf' = p_gf
  /\ ini_p_gf' = ini_p_gf
  /\ geo' = ResetQuadratureData(geo)

\* t = t_old; S = S_old; p_gf = p_gf_old; ini_p_gf = ini_p_old_gf;
\* geo.ResetQuadratureData()
Restore ==
  /\ t' = t_old
  /\ S' = S_old
  /\ p_gf' = p_gf_old
  /\ ini_p_gf' = ini_p_old_gf
  /\ geo' = ResetQuadratureData(geo)

\* dt_est < dt and the halved dt is not below the floor: restore the
\* snapshot, invalidate the cache, repeat the step index (ti--; continue)
Reject ==
  /\ pc = "control"
  /\ ~mesh_changed
  /\ Rejects(est, dt)
  /\ CanHalve(dt)
  /\ ~BelowFloor(dt)
  /\ dt' = Halve(dt)
  /\ Restore
  /\ last_step' = IF steps < param.max_tsteps THEN FALSE ELSE last_step
  /\ outcome' = "rejected"
  /\ used_dt' = dt
  /\ used_ti' = ti
  /\ pc' = "top"
  /\ UNCHANGED <<others, dim, ess, cfg, diag, param, ti, t_old, dt_old, steps, itime, mesh_changed, S_old,
                 p_gf_old, ini_p_old_gf, est, S0, saved, nextId, rm_dt, snap, op,
                 calls, adds>>

\* dt_est < dt and the halved dt is below the floor: save, MFEM_ABORT
Abort ==
  /\ pc = "control"
  /\ ~mesh_changed
  /\ Rejects(est, dt)
  /\ BelowFloor(dt)
  /\ dt' = Halve(dt)
  /\ saved' = saved \o Saves(ti, "abort")
  /\ outcome' = "aborted"
  /\ used_dt' = dt
  /\ used_ti' = ti
  /\ pc' = "aborted"
  /\ UNCHANGED <<others, dim, ess, cfg, diag, param, ti, t, t_old, dt_old, last_step, steps, itime,
                 mesh_changed, S, S_old, p_gf, p_gf_old, ini_p_gf,
                 ini_p_old_gf, est, geo, S0, nextId, rm_dt, snap, op, calls,
                 adds>>

Driver ==
  \/ InitEstimate \/ LoopTop \/ LoopExit \/ Stage1 \/ Stage2 \/ PostStep
  \/ Query \/ AcceptRemeshed \/ Accept \/ Reject \/ Abort

Next == Driver

Spec == Init /\ [][Next]_vars

\* setup from any input, up to the first estimate before the loop
NextSetup ==
  \/ CheckBoundaries \/ CheckOde \/ CheckLists \/ WeakLocation \/ KernelAbort
  \/ InitEstimate

SpecSetup == InitSetup /\ [][NextSetup]_vars

\* ------------------------------------------------- the operator on its own
\* any sequence of the operator's public operations, on any of a few states
States == {1, 2}

\* the driver takes no part in these behaviours
Idle == UNCHANGED <<param, drv, cfg, diag, dim, ess, others>>

OpUpdateMesh ==
  /\ \E s \in States :
       /\ geo' = UpdateMesh(Begin(geo), s)
       /\ op' = Call("UpdateMesh", s)
  /\ Idle

OpSolveVelocity ==
  /\ \E s \in States, bs \in Reads(geo) :
       /\ geo' = SolveVelocity(Begin(geo), s, bs)
       /\ op' = Call("SolveVelocity", s)
  /\ Idle

OpSolveEnergy ==
  /\ \E s \in States, bs \in Reads(geo) :
       /\ geo' = SolveEnergy(Begin(geo), s, bs)
       /\ op' = Call("SolveEnergy", s)
  /\ Idle

OpSolveStress ==
  /\ \E s \in States, bs \in Reads(geo) :
       /\ geo' = SolveStress(Begin(geo), s, bs)
       /\ op' = Call("SolveStress", s)
  /\ Idle

OpMult ==
  /\ \E s \in States, bs \in Reads(geo) :
       /\ geo' = Mult(Begin(geo), s, bs)
       /\ op' = Call("Mult", s)
  /\ Idle

OpGetTimeStepEstimate ==
  /\ \E s \in States, bs \in Reads(geo), remote \in RemoteEst :
       LET g == EstimateRefresh(Begin(geo), s, bs) IN
         /\ geo' = g
         /\ op' = [Call("GetTimeStepEstimate", s)
                     EXCEPT !.ret = GlobalEstimate(g, remote)]
  /\ Idle

\* one stage of RK2AvgSolver::Step run on the operator
OpRK2AvgStage ==
  /\ \E s \in States, bs \in Reads(geo) :
       /\ geo' = RK2AvgStage(Begin(geo), s, bs)
       /\ op' = Call("RK2AvgStage", s)
  /\ Idle

OpResetQuadratureData ==
  /\ geo' = ResetQuadratureData(Begin(geo))
  /\ op' = Call("ResetQuadratureData", -1)
  /\ Idle

OpResetTimeStepEstimate ==
  /\ geo' = ResetTimeStepEstimate(Begin(geo))
  /\ op' = Call("ResetTimeStepEstimate", -1)
  /\ Idle

NextOps ==
  \/ OpUpdateMesh \/ OpSolveVelocity \/ OpSolveEnergy \/ OpSolveStress
  \/ OpMult \/ OpGetTimeStepEstimate \/ OpResetQuadratureData
  \/ OpResetTimeStepEstimate \/ OpRK2AvgStage

SpecOps == Init /\ [][NextOps]_vars

\* --------------------------------------------------- the kernels on their own
\* main and the ranks take no part in these behaviours
main == <<param, drv, geo, op, cfg, diag, dim, ess>>

InitKernel ==
  /\ Constructed
  /\ param.max_tsteps = 2
  /\ pc = "init"
  /\ cfg = DefaultConfig
  /\ dim = 2
  /\ ess = Marked(DefaultConfig)
  /\ kern \in KernelInputs

\* the body of LagrangianHydroOperator::UpdateQuadratureData behind its
\* freshness guard: the batch loop over the zones, the running estimate, the
\* stress-rate flux written to qdata.tauJinvT
KUpdateFA ==
  /\ ~kern.cur
  /\ LET wrote == [kern EXCEPT
                     !.cur = TRUE,
                     !.was = kern.dt_est,
                     !.zones.FA =
                        Flatten(BatchLoop(kern.NE, 0, ZonesBatch, <<>>)),
                     !.ran = @ \cup {"FA"},
                     !.tau.FA = TauFA(kern.p, kern.dim, kern.visc)]
     IN \E bs \in Geometry(kern.NE) :
          kern' = [wrote EXCEPT !.dt_est = KernelEst(@, bs)]
  /\ UNCHANGED <<main, ranks, coll>>

\* the body of QUpdate::UpdateQuadratureData behind its freshness guard
KUpdatePA ==
  /\ ~kern.cur
  /\ LET wrote == [kern EXCEPT
                     !.cur = TRUE,
                     !.was = kern.dt_est,
                     !.zones.PA = ForallZones(kern.NE),
                     !.ran = @ \cup {"PA"},
                     !.tau.PA = TauPA(kern.p, kern.dim, kern.visc)]
     IN \E ps \in Geometry(kern.NE) :
          kern' = [wrote EXCEPT !.dt_est = QKernelEst(@, ps)]
  /\ UNCHANGED <<main, ranks, coll>>

\* qdata_is_current = false
KInvalidate ==
  /\ kern.cur
  /\ kern' = [kern EXCEPT !.cur = FALSE]
  /\ UNCHANGED <<main, ranks, coll>>

\* ResetTimeStepEstimate
KResetTimeStepEstimate ==
  /\ kern' = [kern EXCEPT !.was = kern.dt_est, !.dt_est = Infinity]
  /\ UNCHANGED <<main, ranks, coll>>

\* SolveStress on a current cache: its refresh returns at once, then the
\* assembled rate is written zone by zone
KSolveStress ==
  /\ kern.cur
  /\ kern' = [kern EXCEPT !.dsig = StressWrites(kern.dim, kern.NE)]
  /\ UNCHANGED <<main, ranks, coll>>

NextKernel ==
  \/ KUpdateFA \/ KUpdatePA \/ KInvalidate \/ KResetTimeStepEstimate
  \/ KSolveStress

SpecKernel == InitKernel /\ [][NextKernel]_vars

\* ------------------------------------------------------- the ranks together
\* trials of a rank
MaxRankTrials == 3

\* remeshing is due on rank k
RankRemeshDue(k) ==
  /\ param.tmop
  /\ \/ k.ti % param.remesh_steps = 0
     \/ IF k.itime = 0 THEN k.dt = 0 ELSE 4 * k.dt < k.itime

\* the adaptive control of one rank after its reduction: no test after a
\* remesh; dt_est < dt halves dt and aborts below the floor or restores t and
\* repeats the step index; otherwise the step stands and dt may grow
Decide(k) ==
  IF k.mesh_changed
  THEN [k EXCEPT !.mesh_changed = FALSE, !.outcome = "remeshed",
                 !.used_dt = k.dt, !.ti = @ + 1, !.pc = "top"]
  ELSE IF Rejects(k.est, k.dt)
  THEN IF BelowFloor(k.dt)
       THEN [k EXCEPT !.dt = Halve(@), !.outcome = "aborted",
                      !.used_dt = k.dt, !.pc = "aborted"]
       ELSE [k EXCEPT !.dt = Halve(@), !.t = k.t_old,
                      !.last_step = IF k.steps < param.max_tsteps
                                    THEN FALSE ELSE @,
                      !.outcome = "rejected", !.used_dt = k.dt,
                      !.pc = "top"]
  ELSE [k EXCEPT !.dt = IF Grows(k.est, k.dt) THEN Grow(@) ELSE @,
                 !.outcome = IF Grows(k.est, k.dt) THEN "grown"
                             ELSE "accepted",
                 !.used_dt = k.dt, !.ti = @ + 1, !.pc = "top"]

InitRanks ==
  /\ Constructed
  /\ pc = "init"
  /\ cfg = DefaultConfig
  /\ dim = 2
  /\ ess = Marked(DefaultConfig)
  /\ kern = KernelIdle

\* geo.ResetTimeStepEstimate(); dt = geo.GetTimeStepEstimate(S, dt): the
\* rank refreshes its cache and enters the MPI_Allreduce
RankInitEstimate(r) ==
  /\ ranks[r].pc = "init"
  /\ \E bs \in Batches :
       /\ ranks' = [ranks EXCEPT ![r] =
                      [@ EXCEPT !.loc = KernelEst(Infinity, bs),
                                !.inverted = SawNegative(bs),
                                !.joined = @ + 1, !.pc = "wait0"]]
       /\ coll' = [coll EXCEPT ![r] = KernelEst(Infinity, bs)]
  /\ UNCHANGED <<main, kern>>

\* head of the loop body of rank r up to the call of ode_solver->Step
RankTop(r) ==
  /\ ranks[r].pc = "top"
  /\ ~ranks[r].last_step
  /\ ranks[r].steps < MaxRankTrials
  /\ LET k == ranks[r]
         clip == k.t + k.dt >= param.t_final
         dt1 == IF clip THEN param.t_final - k.t ELSE k.dt
     IN ranks' = [ranks EXCEPT ![r] =
                    [k EXCEPT !.dt = dt1,
                              !.last_step = (clip \/ k.steps = param.max_tsteps),
                              !.t_old = k.t,
                              !.loc = Infinity,
                              !.itime = IF k.ti = ItimeStep THEN dt1 ELSE @,
                              !.pc = "step"]]
  /\ UNCHANGED <<main, kern, coll>>

\* the for statement of rank r finds last_step set
RankExit(r) ==
  /\ ranks[r].pc = "top"
  /\ ranks[r].last_step
  /\ ranks' = [ranks EXCEPT ![r].pc = "done"]
  /\ UNCHANGED <<main, kern, coll>>

\* ode_solver->Step, the collaborators, steps++, and GetTimeStepEstimate up
\* to its MPI_Allreduce: loc is the running minimum over the refreshes the
\* rank made in this trial
RankStep(r) ==
  /\ ranks[r].pc = "step"
  /\ \E bs \in Batches :
       LET k == ranks[r] IN
         /\ ranks' = [ranks EXCEPT ![r] =
                        [k EXCEPT !.t = k.t + k.dt,
                                  !.mesh_changed = (@ \/ RankRemeshDue(k)),
                                  !.steps = @ + 1,
                                  !.loc = KernelEst(k.loc, bs),
                                  !.inverted = SawNegative(bs),
                                  !.joined = @ + 1,
                                  !.pc = "wait"]]
         /\ coll' = [coll EXCEPT ![r] = KernelEst(k.loc, bs)]
  /\ UNCHANGED <<main, kern>>

\* least contribution
RECURSIVE Least(_, _)
Least(c, rs) ==
  IF rs = {} THEN Infinity
  ELSE LET r == CHOOSE x \in rs : TRUE IN Min(c[r], Least(c, rs \ {r}))

\* MPI_Allreduce(&qdata.dt_est, &glob_dt_est, 1, MPI_DOUBLE, MPI_MIN, comm)
\* completes once every rank has entered it and gives every rank the least
\* contribution: before the loop it becomes dt, in the loop dt_est
Allreduce ==
  /\ \A r \in Rank : coll[r] /= -1
  /\ ranks' = [r \in Rank |->
                 IF ranks[r].pc = "wait0"
                 THEN [ranks[r] EXCEPT !.dt = Least(coll, Rank), !.pc = "top"]
                 ELSE [ranks[r] EXCEPT !.est = Least(coll, Rank),
                                       !.pc = "control"]]
  /\ coll' = NoColl
  /\ UNCHANGED <<main, kern>>

\* the adaptive control of rank r
RankControl(r) ==
  /\ ranks[r].pc = "control"
  /\ LET k == ranks[r] IN
       /\ ~k.mesh_changed =>
            /\ Rejects(k.est, k.dt) => CanHalve(k.dt)
            /\ (~Rejects(k.est, k.dt) /\ Grows(k.est, k.dt)) => CanGrow(k.dt)
       /\ ranks' = [ranks EXCEPT ![r] = Decide(k)]
  /\ UNCHANGED <<main, kern, coll>>

NextRanks ==
  \/ \E r \in Rank : RankInitEstimate(r)
  \/ \E r \in Rank : RankTop(r)
  \/ \E r \in Rank : RankExit(r)
  \/ \E r \in Rank : RankStep(r)
  \/ Allreduce
  \/ \E r \in Rank : RankControl(r)

SpecRanks == InitRanks /\ [][NextRanks]_vars

\* ------------------------------------------------------------------ claims
\* the driver has just finished a trial
Finished(kinds) == pc = "top" /\ outcome \in kinds

\* the saves an abort at step index cycle owes, visit first
AbortSaves(cycle) ==
  (IF param.visit
   THEN <<[kind |-> "visit", cycle |-> cycle, at |-> "abort"]>> ELSE <<>>)
  \o (IF param.paraview
      THEN <<[kind |-> "paraview", cycle |-> cycle, at |-> "abort"]>> ELSE <<>>)

\* C1 as stated: after every trial the driver does not roll back, a step on
\* which remeshing ran included, the estimate queried after the trial is at
\* least the dt the trial used.
C1_EveryAcceptedStepIsSafe ==
  Finished({"accepted", "grown", "remeshed"}) => est >= used_dt

\* C1 amended: after every trial the driver accepts by its stability test
\* (no remeshing ran on it), the estimate queried after the trial is at least
\* the dt the trial used.
C1_TestedStepIsSafe ==
  Finished({"accepted", "grown"}) => est >= used_dt

C1_Witness ==
  Finished({"accepted"}) /\ used_dt > 0 /\ est >= used_dt /\ est < Infinity

\* C2: a run limited by time that does not abort ends with t equal to
\* t_final.
C2_EndsAtFinalTime ==
  (pc = "done" /\ param.max_tsteps < 0) => t = param.t_final

\* C3: right after a rollback S, t and the plastic-strain fields equal what
\* they held when the rejected trial began, and the freshness flag is false.
C3_RollbackExact ==
  Finished({"rejected"}) =>
    /\ S = snap.S
    /\ t = snap.t
    /\ p_gf = snap.p_gf
    /\ ini_p_gf = snap.ini_p_gf
    /\ ~geo.qdata_is_current

C3_Witness ==
  Finished({"rejected"}) /\ t > 0 /\ p_gf > 0 /\ S = snap.S /\ nextId > S + 1

\* C4: after a rejection that does not abort the driver runs another trial,
\* with the same step index, half the rejected dt, from the snapshot time and
\* state.
C4_RetrySameStepHalfDt ==
  [][Finished({"rejected"}) =>
       /\ pc' = "stage1"
       /\ ti' = used_ti
       /\ 2 * dt' = used_dt
       /\ t' = snap.t
       /\ S' = snap.S]_vars

\* C5: if a kernel refresh of a trial saw a negative determinant, the estimate
\* of that trial is zero and the driver rolls the trial back (or aborts)
\* instead of advancing.
C5_InversionForcesRollback ==
  [][(pc = "control" /\ geo.neg) =>
       (est = 0 /\ outcome' \in {"rejected", "aborted"})]_vars

\* C6: when half of a rejected dt is below the floor, the driver appends the
\* save of every enabled data collection and aborts, and nothing happens
\* after the abort.
C6_FloorAbortFlushes ==
  [][/\ (pc = "control" /\ ~mesh_changed /\ est < dt /\ dt < 2 * DtFloor) =>
          (pc' = "aborted" /\ saved' = saved \o AbortSaves(ti))
     /\ pc /= "aborted"]_vars

C6_Witness ==
  /\ pc = "aborted"
  /\ Len(saved) > 0
  /\ saved[Len(saved)].at = "abort"
  /\ used_dt >= DtFloor

\* C7: every trial sequence of one step index ends in an accepted step or in
\* the floor abort, so a run that ends normally never ends on a rejected
\* trial.
C7_SequenceEndsAcceptedOrAborted ==
  pc = "done" => outcome \in {"accepted", "grown", "remeshed"}

\* C8 as stated: after every trial that is not rolled back and whose estimate
\* exceeds 1.25 dt, dt becomes exactly 1.02 dt; dt increases in no other case
\* and by no other factor.
C8_GrowthAfterEveryAcceptedStep ==
  [][/\ (pc = "control" /\ outcome' \in {"accepted", "grown", "remeshed"}
           /\ 4 * est > 5 * dt) => 50 * dt' = 51 * dt
     /\ (pc /= "init" /\ dt' > dt) =>
          (pc = "control" /\ 4 * est > 5 * dt /\ 50 * dt' = 51 * dt)]_vars

\* C8 amended: after every trial accepted by the stability test (no remeshing
\* ran on it) whose estimate exceeds 1.25 dt, the driver sets dt to exactly
\* 1.02 dt; inside the loop dt increases in no other case and by no other
\* factor.
C8_GrowthAfterTestedStep ==
  [][/\ (pc = "control" /\ ~mesh_changed /\ est >= dt /\ 4 * est > 5 * dt) =>
          50 * dt' = 51 * dt
     /\ (pc /= "init" /\ dt' > dt) =>
          (pc = "control" /\ ~mesh_changed /\ est >= dt /\ 4 * est > 5 * dt
             /\ 50 * dt' = 51 * dt)]_vars

C8_Witness ==
  Finished({"grown"}) /\ 50 * dt = 51 * used_dt /\ 4 * est > 5 * used_dt

\* C9: between two invalidations of the freshness flag the kernel body runs
\* at most once, however many refresh requests are made.
C9_OneRefreshPerInvalidation == geo.runs <= 1

C9_Witness == geo.runs = 1 /\ geo.asks >= 3 /\ geo.qdata_is_current

\* C10 as stated: for any sequence of public operations, the assemblers of a
\* Mult call consume a cache refreshed from the state given to that call.
C10_MultUsesOwnState ==
  op.name = "Mult" => geo.used = op.arg

\* C10 amended: Mult leaves the flag false when it returns, and its
\* assemblers consume a cache refreshed from its own state whenever the flag
\* was false when Mult was entered.
C10_MultUsesOwnStateWhenStale ==
  op.name = "Mult" =>
    /\ ~geo.qdata_is_current
    /\ ~op.cur => (geo.used = op.arg /\ geo.qsrc = op.arg)

C10_Witness ==
  op.name = "Mult" /\ ~op.cur /\ geo.used = op.arg /\ geo.dt_est < Infinity

\* C11: after every Mult call the steps it took are, in this order, UpdateMesh,
\* dx = v, SolveVelocity, SolveEnergy, SolveStress, qdata_is_current = false.
C11_MultStepOrder ==
  op.name = "Mult" =>
    geo.did = <<"UpdateMesh", "dx = v", "SolveVelocity", "SolveEnergy",
                "SolveStress", "qdata_is_current = false">>

\* the values a reduction over the ranks can return for a local estimate e
Reduced(e) == {Min(e, r) : r \in RemoteEst}

\* C12 as stated: every GetTimeStepEstimate call runs the kernel on the state
\* it is given, and the value it returns is the minimum over the ranks of the
\* estimate of that refresh alone.
C12_QueryAlwaysRefreshes ==
  op.name = "GetTimeStepEstimate" =>
    /\ ~op.cur
    /\ geo.qsrc = op.arg
    /\ op.ret \in Reduced(geo.own)

\* C12 amended: every GetTimeStepEstimate call binds the mesh to its state and
\* leaves the flag true; it runs the kernel, once and on that state, when the
\* flag was false on entry; the value it returns is the minimum over the ranks
\* of the running minimum, which is never above the estimate of the call's
\* own refresh.
C12_QueryRefreshesWhenStale ==
  op.name = "GetTimeStepEstimate" =>
    /\ geo.nodes = op.arg
    /\ geo.qdata_is_current
    /\ ~op.cur => (geo.qsrc = op.arg /\ geo.qnodes = op.arg /\ geo.runs = 1)
    /\ op.cur => geo.own = Infinity
    /\ op.ret \in Reduced(geo.dt_est)
    /\ geo.dt_est <= geo.own

C12_Witness ==
  /\ op.name = "GetTimeStepEstimate"
  /\ ~op.cur
  /\ geo.qsrc = op.arg
  /\ geo.dt_est < geo.own
  /\ op.ret = geo.dt_est

\* C13: the running minimum is +infinity when the integrator starts a trial,
\* and the estimate the driver compares with dt after the trial is the
\* minimum, over the ranks, of the refreshes of that trial only.
C13_EstimateOfThisTrialOnly ==
  /\ pc = "stage1" => geo.dt_est = Infinity
  /\ pc = "control" => (geo.dt_est = geo.own /\ est \in Reduced(geo.own))

C13_Witness ==
  /\ pc = "control"
  /\ outcome = "rejected"
  /\ est = geo.own
  /\ est < Infinity
  /\ est >= used_dt

\* C14: a run limited to max_tsteps = N >= 0 steps that ends without abort
\* and before the final time has accepted exactly N steps.
C14_StepLimitedRunAcceptsExactlyN ==
  (pc = "done" /\ param.max_tsteps >= 0 /\ t < param.t_final) =>
    ti - 1 = param.max_tsteps

\* the Returnmapping calls among cs
RmCalls(cs) == Cardinality({i \in DOMAIN cs : cs[i].name = "Returnmapping"})

\* C15 as stated: Returnmapping is not invoked in a trial that is rejected.
C15_ReturnmappingOnlyOnAcceptedSteps ==
  Finished({"rejected"}) => RmCalls(calls) = 0

\* C15 amended: with plasticity enabled Returnmapping is invoked exactly once
\* in every trial, rejected trials included, on the state Step returned and
\* after the stress-rate update of the second stage; without plasticity it is
\* not invoked.
C15_ReturnmappingOncePerTrial ==
  [][/\ pc = "post" =>
          /\ RmCalls(calls') = (IF param.plastic THEN 1 ELSE 0)
          /\ param.plastic =>
               /\ calls'[1] = [name |-> "Returnmapping", on |-> S]
               /\ Len(adds) = 2 /\ adds[2].out = S
               /\ geo.did[Len(geo.did) - 1] = "SolveStress"
     /\ pc \notin {"post", "top"} => RmCalls(calls') = RmCalls(calls)]_vars

C15_Witness ==
  Finished({"rejected"}) /\ RmCalls(calls) = 1 /\ p_gf = snap.p_gf

\* remeshing ran in the trial whose calls are cs
Remeshed(cs) == \E i \in DOMAIN cs : cs[i].name = "Remesh"

\* C16 as stated: remeshing is only ever given a state that has passed the
\* acceptance test, that is the state the trial started from.
C16_RemeshOnlyOnAcceptedState ==
  \A i \in DOMAIN calls : calls[i].name = "Remesh" => calls[i].on = snap.S

\* C16 amended: remeshing runs inside a trial, after Step and before the
\* estimate of that trial is queried, only when tmop is enabled; the driver
\* then keeps the remeshed state and dt without comparing the estimate with dt.
C16_RemeshInsideTrial ==
  [][/\ (Remeshed(calls') /\ ~Remeshed(calls)) =>
          (pc = "post" /\ param.tmop /\ mesh_changed'
             /\ Len(adds) = 2 /\ adds[2].out = S)
     /\ (pc = "control" /\ Remeshed(calls)) =>
          (outcome' = "remeshed" /\ S' = S /\ t' = t /\ dt' = dt)]_vars

C16_Witness ==
  Finished({"remeshed"}) /\ Remeshed(calls) /\ est < used_dt /\ t > snap.t

\* setup has passed the validation of the per-material lists
PastLists == pc \in {"weak", "init", "top", "aborted"}

\* C17 as stated: setup gets past the list validation only if every
\* per-material list has as many entries as the mesh has material ids.
C17_EveryLengthMismatchAborts ==
  PastLists => \A l \in ListNames : cfg.len[l] = cfg.nmat

\* C17 amended: setup gets past the list validation only if every list it
\* looks at (plastic_viscosity only with viscoplasticity enabled) has one
\* entry or as many entries as the mesh has material ids; a list rejected ends
\* the run with its message before any step is taken.
C17_CheckedMismatchAborts ==
  /\ PastLists =>
       \A l \in ListNames :
         (l /= "plastic_viscosity" \/ cfg.viscoplastic) =>
           (cfg.len[l] = 1 \/ cfg.len[l] = cfg.nmat)
  /\ (pc = "exit3" /\ diag \in ListNames) =>
       /\ cfg.len[diag] /= 1 /\ cfg.len[diag] /= cfg.nmat
       /\ diag = "plastic_viscosity" => cfg.viscoplastic
       /\ steps = 0 /\ t = 0 /\ ~geo.qdata_is_current

C17_Witness ==
  /\ pc = "exit3"
  /\ diag = "plastic_viscosity"
  /\ cfg.len["plastic_viscosity"] = 3
  /\ cfg.nmat = 2

\* C18 as stated: setup reaches the time loop only if the ODE scheme, every
\* boundary-condition code and the kernel id asked for are in their documented
\* sets.
C18_EveryUnsupportedValueAborts ==
  pc = "top" =>
    /\ cfg.ode_solver_type \in {1, 2, 3, 4, 6, 7}
    /\ \A i \in DOMAIN cfg.bc_id :
         cfg.bc_id[i] \in (IF cfg.dim = 2 THEN 1..3 ELSE 1..7)
    /\ cfg.p_assembly => cfg.dim * 16 + cfg.Q1D \in {36, 38, 40, 52, 54, 56}

\* C18 amended: setup reaches the time loop only if the ODE scheme is one of
\* 1, 2, 3, 4, 6, 7, every positive boundary-condition code has a case of its
\* own, and the kernel id asked for under partial assembly is in the table;
\* codes that are zero or negative are passed over; every exit of setup
\* prints a message.
C18_UnsupportedPositiveValueAborts ==
  /\ pc = "top" =>
       /\ cfg.ode_solver_type \in {1, 2, 3, 4, 6, 7}
       /\ \A i \in DOMAIN cfg.bc_id :
            \/ cfg.bc_id[i] <= 0
            \/ cfg.bc_id[i] \in (IF cfg.dim = 2 THEN 1..3 ELSE 1..6)
       /\ cfg.p_assembly => cfg.dim * 16 + cfg.Q1D \in {36, 38, 40, 52, 54, 56}
  /\ pc \in {"exit3", "aborted"} => (diag /= "" /\ steps = 0)

C18_Witness ==
  /\ pc = "exit3"
  /\ diag = "Unknown ODE solver type"
  /\ cfg.ode_solver_type = 5

\* C19: when Mult, GetTimeStepEstimate or a stage of RK2AvgSolver::Step runs
\* the kernel on its state, the mesh nodes the kernel reads are bound to that
\* same state.
C19_MeshBoundToRefreshedState ==
  (op.name \in {"Mult", "GetTimeStepEstimate", "RK2AvgStage"} /\ ~op.cur) =>
    (geo.qsrc = op.arg /\ geo.qnodes = op.arg)

C19_Witness ==
  /\ op.name = "RK2AvgStage"
  /\ ~op.cur
  /\ geo.qsrc = 2 /\ geo.qnodes = 2
  /\ geo.dt_est < Infinity

\* C20: when Step returns, S is S0 + dt * R2 with S0 the state the trial began
\* from, R2 the rates assembled from the cache of the half-step state
\* S0 + dt/2 * R1 and R1 those assembled from the cache of S0; in both stages
\* the position rate averages the velocity of S0; the flag is false after each
\* of the two updates; t has grown by dt and dt is what Step was given.
C20_RK2AvgIsMidpoint ==
  pc = "post" =>
    /\ Len(adds) = 2
    /\ adds[1] = [base |-> snap.S, halves |-> 1, dt |-> dt,
                  rate |-> [at |-> snap.S, v0 |-> snap.S],
                  out |-> adds[1].out, cur |-> FALSE]
    /\ adds[2] = [base |-> snap.S, halves |-> 2, dt |-> dt,
                  rate |-> [at |-> adds[1].out, v0 |-> snap.S],
                  out |-> S, cur |-> FALSE]
    /\ t = snap.t + dt
    /\ ~geo.qdata_is_current

C20_Witness ==
  /\ pc = "post"
  /\ dt > 0
  /\ snap.t > 0
  /\ adds[1].out /= snap.S
  /\ adds[2].rate.at = adds[1].out
  /\ S /= adds[1].out


\* C21: the stress-rate update writes exactly one block per independent
\* symmetric stress component, 3 in 2D and 6 in 3D, and every index it writes
\* lies inside the stress block of the rate vector, whose size is 3 * (dim - 1)
\* times the size of one component.
C21_StressRateWritesInsideBlock ==
  kern.dsig.blocks /= {} =>
    /\ Cardinality(kern.dsig.blocks) = 3 * (kern.dim - 1)
    /\ kern.dsig.size = 3 * (kern.dim - 1) * (kern.NE * ZoneDofs)
    /\ \A i \in kern.dsig.idx : 0 <= i /\ i < kern.dsig.size

\* the stress-rate flux of the point without corotational terms
NonCorotational(k) == IF k.visc THEN TauPlain(k.p, k.dim) ELSE Zero(k.dim)

\* C22: the corotational terms are neutralized: the stress-rate flux a kernel
\* writes to the cache is the flux without the spin terms, in the
\* full-assembly kernel and in the partial-assembly kernel, so both kernels
\* write the same flux for the same input.
C22_SpinTermsNeutralized ==
  /\ "FA" \in kern.ran => kern.tau.FA = NonCorotational(kern)
  /\ {"FA", "PA"} \subseteq kern.ran => kern.tau.FA = kern.tau.PA

\* C23: in 3D every documented boundary code 1..7 is accepted and setup
\* continues; code 6 constrains the x and z components, code 7 the y and z
\* components, and every constrained component index is 0, 1 or 2.
C23_Documented3DCodesAccepted ==
  (/\ cfg.dim = 3
   /\ pc /= "bc"
   /\ cfg.nbdr = Len(cfg.bc_id)
   /\ \A i \in DOMAIN cfg.bc_id : cfg.bc_id[i] \in 1..7) =>
    /\ diag /= "Unknown boundary type"
    /\ \A i \in DOMAIN cfg.bc_id :
         /\ ess[i] \subseteq 0..2
         /\ cfg.bc_id[i] = 6 => ess[i] = {0, 2}
         /\ cfg.bc_id[i] = 7 => ess[i] = {1, 2}

\* C24: between two resets the running estimate dt_est never increases,
\* whichever kernel refreshes it, and once it is zero it stays zero until the
\* next reset.
C24_EstimateNeverIncreasesBetweenResets ==
  [][\/ KResetTimeStepEstimate
     \/ /\ kern'.dt_est <= kern.dt_est
        /\ kern.dt_est = 0 => kern'.dt_est = 0]_vars

C24_Witness ==
  /\ kern.cur
  /\ kern.ran = {"FA", "PA"}
  /\ kern.was = 0
  /\ kern.dt_est = 0

\* C25: in the driver loop with RK2Avg, whenever an assembler or the estimate
\* query uses the cache without refreshing it, the state it was given holds
\* the contents the cache was computed from.
C25_CacheUsedOnlyOnItsState ==
  \A h \in geo.hits : h.given = h.from

C25_Witness ==
  /\ pc = "stage2"
  /\ outcome \in {"accepted", "grown"}
  /\ S0 /= 0
  /\ \E h \in geo.hits : h.by = 1 /\ h.given = S0 /\ h.from = S0

\* C26: the time increment passed to the plasticity collaborator after a trial
\* is the dt that trial used, on the first step and on a retry as well.
C26_ReturnmappingGetsTrialDt ==
  (pc = "query" /\ param.plastic) => rm_dt = dt

\* C27: every trial runs with a finite, strictly positive dt, every accepted
\* step strictly increases t, and t never exceeds t_final.
C27_PositiveStepsWithinFinalTime ==
  /\ pc \in {"stage1", "stage2", "post", "query", "control"} =>
       (0 < dt /\ dt < Infinity)
  /\ Finished({"accepted", "grown", "remeshed"}) => t > snap.t
  /\ t <= param.t_final

\* two ranks that have entered the same number of collectives and stand at
\* the same position
Abreast(a, b) == a.joined = b.joined /\ a.pc = b.pc

\* C28: the ranks run the loop in lockstep: abreast ranks agree on ti, t, dt
\* and on the decision of the trial, no rank ends while another has entered a
\* collective it has not, and an inverted element on one rank makes every
\* rank reject the trial.
C28_RanksInLockstep ==
  /\ \A a \in Rank, b \in Rank :
       Abreast(ranks[a], ranks[b]) =>
         /\ ranks[a].ti = ranks[b].ti
         /\ ranks[a].t = ranks[b].t
         /\ ranks[a].dt = ranks[b].dt
         /\ ranks[a].last_step = ranks[b].last_step
         /\ ranks[a].outcome = ranks[b].outcome
  /\ \A a \in Rank, b \in Rank :
       ranks[a].pc \in {"done", "aborted"} =>
         ranks[b].joined <= ranks[a].joined
  /\ (/\ \A a \in Rank : ranks[a].pc \in {"top", "aborted"}
      /\ \A a \in Rank, b \in Rank : ranks[a].joined = ranks[b].joined
      /\ \E a \in Rank : ranks[a].inverted /\ ranks[a].joined > 1) =>
       \A a \in Rank : ranks[a].outcome \in {"rejected", "aborted"}

\* C29: for every zone count NE >= 0 the batch loop of the full-assembly
\* kernel visits each zone 0 .. NE-1 exactly once and no index >= NE.
C29_BatchLoopVisitsEveryZoneOnce ==
  "FA" \in kern.ran =>
    /\ Len(kern.zones.FA) = kern.NE
    /\ \A z \in 0..(kern.NE - 1) :
         Cardinality({i \in DOMAIN kern.zones.FA : kern.zones.FA[i] = z}) = 1
    /\ \A i \in DOMAIN kern.zones.FA :
         0 <= kern.zones.FA[i] /\ kern.zones.FA[i] < kern.NE

C29_Witness ==
  /\ "FA" \in kern.ran
  /\ kern.NE = ZonesBatch
  /\ kern.zones.FA = <<0, 1, 2>>

\* C30: setup does not change dim: when the loop starts dim is the dimension
\* of the mesh, 2 or 3, and choosing the weak-zone location leaves it alone.
C30_SetupKeepsDim ==
  /\ dim = cfg.dim
  /\ dim \in {2, 3}

====
